---- MODULE Spec2Model ----
(***************************************************************************)
(* A model of src/model.py: the decoder-only transformer                   *)
(* (Head, MultiHeadAttention, FeedForward, Block, BigramLanguageModel)     *)
(* and its autoregressive generation loop.                                 *)
(*                                                                         *)
(* Tensors are modelled by their shape, their device and, per position,    *)
(* by the set of <<position, token>> input entries the value at that       *)
(* position is computed from (its "reads").  Every real-valued operation   *)
(* of the source (linear maps, layer norm, GELU, softmax, dropout with a   *)
(* fixed generator state) is a function of its operands, so two values     *)
(* with the same reads, computed by the same model at the same place,      *)
(* are equal.  Indices are 1-based here and 0-based in the source.         *)
(***************************************************************************)
EXTENDS Integers, Sequences, FiniteSets, TLC

\* ---------------------------------------------------------------- bounds
MaxEmbd == 3
MaxHead == 2
MaxLayer == 2
MaxBlock == 2
MaxTime == 3
MaxPrompt == 2
MaxNewTokens == 2
MaxHistory == 1

\* the vocabulary sizes and batch sizes examined
VocabSizes == {2}
BatchSizes == {1, 2}

None == "None"

VARIABLES config, cudaAvailable, model, fwd, gen

vars == <<config, cudaAvailable, model, fwd, gen>>

Min(a, b) == IF a <= b THEN a ELSE b
Max(a, b) == IF a >= b THEN a ELSE b

\* ------------------------------------------------------- module globals
\* device = 'cuda' if torch.cuda.is_available() else 'cpu'
device == IF cudaAvailable THEN "cuda" ELSE "cpu"

\* the devices a tensor or a module can be placed on, on this machine
AvailableDevices == IF cudaAvailable THEN {"cpu", "cuda"} ELSE {"cpu"}

\* ------------------------------------------------------- configuration
Configs ==
  [vocab_size : VocabSizes,
   n_embd     : (MaxEmbd - 1)..MaxEmbd,
   n_head     : 0..MaxHead,
   n_layer    : 1..MaxLayer,
   block_size : 1..MaxBlock]

\* ------------------------------------------------------- Head.__init__
\* torch.tril(torch.ones(block_size, block_size)): the lower triangle,
\* diagonal included, is 1 and the rest is 0.
\* variant: torch.ones without torch.tril
TrilAllOnes(n) == [i \in 1..n |-> [j \in 1..n |-> 1]]

\* variant: torch.tril(..., diagonal=-1), the diagonal excluded
TrilStrict(n) == [i \in 1..n |-> [j \in 1..n |-> IF j < i THEN 1 ELSE 0]]

Tril(n) == [i \in 1..n |-> [j \in 1..n |-> IF j <= i THEN 1 ELSE 0]]

\* ------------------------------------------------------- Block.__init__
\* head_size = n_embd // n_head: floor division, ZeroDivisionError on 0.
HeadSize(n_embd, n_head) == n_embd \div n_head

\* BigramLanguageModel.__init__: one Block per layer (none when n_layer is
\* 0, and then head_size is never computed); each Block computes head_size
\* and builds n_head Heads of that width, each registering the tril buffer.
NotConstructed == [status |-> "none"]

ConstructModel(cfg, dev) ==
  IF cfg.n_layer >= 1 /\ cfg.n_head = 0
    THEN [status |-> "raised", err |-> "ZeroDivisionError"]
    ELSE [status    |-> "ok",
          device    |-> dev,
          blocks    |-> cfg.n_layer,
          head_size |-> IF cfg.n_layer >= 1
                          THEN HeadSize(cfg.n_embd, cfg.n_head) ELSE None,
          tril      |-> IF cfg.n_layer >= 1 /\ cfg.n_head >= 1
                          THEN Tril(cfg.block_size) ELSE None]

\* ---------------------------------------------------------- Head.forward
\* self.tril[:T, :T]: a slice stops at the end of the buffer.
TrilSlice(tril, T) ==
  LET n == Min(T, Len(tril))
  IN  [i \in 1..n |-> [j \in 1..n |-> tril[i][j]]]

\* masked_fill(self.tril[:T, :T] == 0, -inf) on the (T, T) scores: the mask
\* must broadcast to (T, T), that is be (T, T) or (1, 1).
MaskBroadcasts(tril, T) ==
  LET n == Min(T, Len(tril)) IN n = T \/ n = 1

\* whether score (i, j) is overwritten by -inf
\* (an entry of the slice is the entry of the buffer at the same place)
Masked(tril, T, i, j) ==
  IF Min(T, Len(tril)) = T THEN tril[i][j] = 0 ELSE tril[1][1] = 0

\* softmax of a row gives weight 0 exactly to its -inf entries, so the
\* output at i is computed from x[i] (the query) and from the keys and
\* values of the unmasked j.
HeadRow(tril, x, i) ==
  x[i] \cup UNION {x[j] : j \in {k \in 1..Len(x) : ~Masked(tril, Len(x), i, k)}}

\* the rows 1..n of the output of a head
RECURSIVE HeadRows(_, _, _)
HeadRows(tril, x, n) ==
  IF n = 0 THEN <<>>
  ELSE Append(HeadRows(tril, x, n - 1), HeadRow(tril, x, n))

HeadForward(tril, x) == HeadRows(tril, x, Len(x))

\* a row of scores that is -inf throughout has no finite entry (softmax
\* gives NaN)
RowsFinite(tril, T) ==
  \A i \in 1..T : \E j \in 1..T : ~Masked(tril, T, i, j)

\* --------------------------------------------- MultiHeadAttention.forward
\* torch.cat([h(x) for h in self.heads], dim=-1): the widths add up
CatWidth(n_head, head_size) == n_head * head_size

\* self.proj = nn.Linear(n_embd, n_embd) accepts only inputs n_embd wide
\* variant: a projection sized by what it is given
ProjAcceptsAny(width, n_embd) == width <= n_embd

ProjAccepts(width, n_embd) == width = n_embd

\* every head reads the same x through the same mask; the projection and
\* the dropout work per position
MultiHeadForward(tril, x) == HeadForward(tril, x)

\* ---------------------------------------------------------- Block.forward
\* x = x + sa(ln1(x)); x = x + ffwd(ln2(x)): layer norm and the feed
\* forward net work per position
\* x + a, positions 1..n
RECURSIVE Residual(_, _, _)
Residual(x, a, n) ==
  IF n = 0 THEN <<>>
  ELSE Append(Residual(x, a, n - 1), x[n] \cup a[n])

\* nn.LayerNorm normalises each position over its own features
LayerNorm(x) == x

\* FeedForward.forward: Linear, GELU, Linear, Dropout, each per position
FeedForward(x) == x

BlockForward(tril, x) ==
  LET x1 == Residual(x, MultiHeadForward(tril, LayerNorm(x)), Len(x))
  IN  Residual(x1, FeedForward(LayerNorm(x1)), Len(x1))

RECURSIVE Blocks(_, _, _)
Blocks(tril, x, n) ==
  IF n = 0 THEN x ELSE Blocks(tril, BlockForward(tril, x), n - 1)

\* ------------------------------------------- BigramLanguageModel.forward
\* torch.arange(T, device=device)
Arange(T) == 0..(T - 1)

\* nn.Embedding lookup: every index must be below the number of rows
\* variant: a table one row longer
EmbeddingInRangeOffByOne(indices, rows) == \A p \in indices : p <= rows

EmbeddingInRange(indices, rows) == \A p \in indices : p < rows

\* tok_emb + pos_emb for one row of the batch
RECURSIVE EmbedUpTo(_, _)
EmbedUpTo(row, n) ==
  IF n = 0 THEN <<>>
  ELSE Append(EmbedUpTo(row, n - 1), {<<n, row[n]>>})

Embed(row) == EmbedUpTo(row, Len(row))

TimeOf(idx) == Len(idx[1])

Numel(t) == Len(t) * TimeOf(t)

\* the first exception forward raises, or None. idx is on the device of
\* the model; the tensor of positions is on the module's global device.
ForwardError(m, cfg, idx, targets) ==
  LET T == TimeOf(idx) IN
  IF ~EmbeddingInRange({idx[b][i] : b \in 1..Len(idx), i \in 1..T}, cfg.vocab_size)
    THEN "IndexError: token"                      \* line 101
  ELSE IF device # m.device
    THEN "RuntimeError: device"                   \* line 102
  ELSE IF ~EmbeddingInRange(Arange(T), cfg.block_size)
    THEN "IndexError: position"                   \* line 102
  ELSE IF m.blocks >= 1 /\ ~MaskBroadcasts(m.tril, T)
    THEN "RuntimeError: mask shape"               \* line 31
  ELSE IF m.blocks >= 1 /\ ~ProjAccepts(CatWidth(cfg.n_head, m.head_size), cfg.n_embd)
    THEN "RuntimeError: proj shape"               \* line 48
  ELSE IF targets.given /\ Numel(targets.value) # Len(idx) * T
    THEN "RuntimeError: view"                     \* line 112
  ELSE None

\* logits = lm_head(ln_f(blocks(x))), per row and position
Logits(m, idx) ==
  [b \in 1..Len(idx) |-> Blocks(m.tril, Embed(idx[b]), m.blocks)]

\* the shape of the logits forward returns: (B, T, vocab_size), viewed as
\* (B*T, vocab_size) when targets are given
\* variant: the logits returned as computed, never viewed as (B*T, C)
LogitsShapeUnflattened(cfg, idx, targets) ==
  <<Len(idx), TimeOf(idx), cfg.vocab_size>>

LogitsShape(cfg, idx, targets) ==
  IF ~targets.given
    THEN <<Len(idx), TimeOf(idx), cfg.vocab_size>>
    ELSE <<Len(idx) * TimeOf(idx), cfg.vocab_size>>

\* loss = None without targets, else F.cross_entropy over the B*T rows
\* variant: the branches of "if targets is None" exchanged
LossSwapped(idx, targets) ==
  IF targets.given
    THEN [kind |-> "None", rows |-> 0]
    ELSE [kind |-> "scalar", rows |-> Len(idx) * TimeOf(idx)]

Loss(idx, targets) ==
  IF ~targets.given
    THEN [kind |-> "None", rows |-> 0]
    ELSE [kind |-> "scalar", rows |-> Len(idx) * TimeOf(idx)]

NoCall == [status |-> "none"]

ForwardResult(m, cfg, idx, targets) ==
  LET e == ForwardError(m, cfg, idx, targets)
      base == [B |-> Len(idx), T |-> TimeOf(idx), idx |-> idx,
               hasTargets |-> targets.given,
               targetsNumel |-> IF targets.given THEN Numel(targets.value) ELSE 0,
               arange |-> device]
  IN  IF e # None
        THEN [status |-> "raised", err |-> e, call |-> base]
        ELSE [status |-> "ok", call |-> base,
              logits |-> Logits(m, idx),
              shape  |-> LogitsShape(cfg, idx, targets),
              loss   |-> Loss(idx, targets),
              finite |-> m.blocks = 0 \/ RowsFinite(m.tril, TimeOf(idx))]

\* ----------------------------------------------------------------- inputs
Tokens(cfg) == 0..(cfg.vocab_size - 1)

Rows(cfg, T) == [1..T -> Tokens(cfg)]

\* a batch of B rows: the row, then its rows shifted by one token
Shift(cfg, row, k) == [i \in 1..Len(row) |-> (row[i] + k) % cfg.vocab_size]

Batch(cfg, row, B) == [b \in 1..B |-> Shift(cfg, row, b - 1)]

\* targets=None, or a tensor of targets
NoTargets == [given |-> FALSE, value |-> <<>>]

Given(t) == [given |-> TRUE, value |-> t]

\* no targets, targets of the shape of idx, targets one step longer
TargetsFor(idx) ==
  {NoTargets, Given(idx), Given([b \in 1..Len(idx) |-> Append(idx[b], 0)])}

\* ---------------------------------------------------------------- actions
Init ==
  /\ config \in Configs
  /\ cudaAvailable \in BOOLEAN
  /\ model = NotConstructed
  /\ fwd = NoCall
  /\ gen = NoCall

Construct ==
  /\ model.status = "none"
  /\ \E dev \in AvailableDevices : model' = ConstructModel(config, dev)
  /\ UNCHANGED <<config, cudaAvailable, fwd, gen>>

\* --------------------------------------- BigramLanguageModel.generate
\* a Python slice seq[start:]: a negative start counts from the end and
\* is clamped at the beginning; a start beyond the end gives nothing
PySliceFrom(seq, start) ==
  LET n == Len(seq)
      s == IF start < 0 THEN Max(n + start, 0) ELSE Min(start, n)
  IN  SubSeq(seq, s + 1, n)

\* idx_cond = idx[:, -block_size:]
\* variant: idx[:, :block_size], the first tokens instead of the last
CropFirst(idx, block_size) ==
  [b \in 1..Len(idx) |-> SubSeq(idx[b], 1, Min(Len(idx[b]), block_size))]

\* variant: idx[:, -(block_size + 1):], one token too many
CropOneMore(idx, block_size) ==
  [b \in 1..Len(idx) |-> PySliceFrom(idx[b], 0 - (block_size + 1))]

Crop(idx, block_size) ==
  [b \in 1..Len(idx) |-> PySliceFrom(idx[b], 0 - block_size)]

\* idx = torch.cat((idx, idx_next), dim=1)
\* variant: torch.cat((idx_next, idx), dim=1)
CatInFront(idx, idx_next) == [b \in 1..Len(idx) |-> <<idx_next[b]>> \o idx[b]]

Cat(idx, idx_next) == [b \in 1..Len(idx) |-> Append(idx[b], idx_next[b])]

\* probs = softmax(logits[:, -1, :]): per row, what the distribution of the
\* next token is computed from
LastOf(row) == row[Len(row)]

LastStep(logits) == [b \in 1..Len(logits) |-> LastOf(logits[b])]

\* the distribution the next token of idx is drawn from, when forward
\* returns one
NextTokenProbs(m, cfg, idx) ==
  LastStep(Logits(m, Crop(idx, cfg.block_size)))

\* one iteration of the loop of generate, drawing idx_next
GenerateIteration(m, cfg, g, idx_next) ==
  LET idx_cond == Crop(g.idx, cfg.block_size)
      r == ForwardResult(m, cfg, idx_cond, NoTargets)
      called == [T |-> TimeOf(idx_cond), len |-> TimeOf(g.idx)]
  IN  IF r.status = "raised"
        THEN [g EXCEPT !.status = "raised", !.err = r.err, !.called = called]
      ELSE IF TimeOf(idx_cond) = 0
        THEN [g EXCEPT !.status = "raised", !.err = "IndexError: last step",
                       !.called = called]
      ELSE [g EXCEPT !.idx = Cat(g.idx, idx_next),
                     !.i = g.i + 1,
                     !.called = called,
                     !.probs = LastStep(r.logits)]

StartGenerate(idx, max_new_tokens) ==
  [status |-> "loop", prompt |-> idx, idx |-> idx, i |-> 0,
   n |-> max_new_tokens, err |-> None,
   called |-> [T |-> 0, len |-> 0], probs |-> <<>>]

\* ---------------------------------------------------------------- actions
Idle == model.status = "ok" /\ fwd = NoCall /\ gen = NoCall

\* forward(idx, targets)
Forward ==
  /\ Idle
  /\ \E T \in 0..MaxTime, B \in BatchSizes :
       \E row \in Rows(config, T) :
         LET idx == Batch(config, row, B) IN
         \E targets \in TargetsFor(idx) :
           fwd' = ForwardResult(model, config, idx, targets)
  /\ UNCHANGED <<config, cudaAvailable, model, gen>>

\* generate(idx, max_new_tokens) is entered
GenerateStart ==
  /\ Idle
  /\ \E T \in 0..MaxPrompt, B \in BatchSizes, n \in 0..MaxNewTokens :
       \E row \in Rows(config, T) :
         gen' = StartGenerate(Batch(config, row, B), n)
  /\ UNCHANGED <<config, cudaAvailable, model, fwd>>

\* one iteration of for _ in range(max_new_tokens)
GenerateStep ==
  /\ gen.status = "loop"
  /\ gen.i < gen.n
  /\ \E idx_next \in [1..Len(gen.idx) -> Tokens(config)] :
       gen' = GenerateIteration(model, config, gen, idx_next)
  /\ UNCHANGED <<config, cudaAvailable, model, fwd>>

\* return idx
GenerateReturn ==
  /\ gen.status = "loop"
  /\ gen.i >= gen.n
  /\ gen' = [gen EXCEPT !.status = "done"]
  /\ UNCHANGED <<config, cudaAvailable, model, fwd>>

\* the caller is done with what a call returned or raised; forward and
\* generate leave nothing behind in the model
Consume ==
  /\ \/ fwd # NoCall
     \/ gen # NoCall /\ gen.status # "loop"
  /\ fwd' = NoCall
  /\ gen' = NoCall
  /\ UNCHANGED <<config, cudaAvailable, model>>

Next ==
  \/ Construct
  \/ Forward
  \/ GenerateStart
  \/ GenerateStep
  \/ GenerateReturn
  \/ Consume

Spec == Init /\ [][Next]_vars

\* ------------------------------------------------------------------ claims
Front(row) == SubSeq(row, 1, Len(row) - 1)

\* the most recent min(length, block_size) tokens of a row
Window(row, block_size) ==
  LET m == Min(Len(row), block_size)
  IN  [i \in 1..m |-> row[Len(row) - m + i]]

\* C1: after every iteration of generate, and when it returns, the running
\* sequence is the prompt followed by one token per iteration done: its
\* length is L + (iterations done), L + max_new_tokens at the return, and
\* its first L tokens are the prompt's.
GenerateLengthAndPrefix ==
  gen.status # "none" =>
    /\ \A b \in 1..Len(gen.idx) :
         /\ Len(gen.idx[b]) = Len(gen.prompt[b]) + gen.i
         /\ SubSeq(gen.idx[b], 1, Len(gen.prompt[b])) = gen.prompt[b]
    /\ Len(gen.idx) = Len(gen.prompt)
    /\ gen.i <= gen.n
    /\ gen.status = "done" => gen.i = gen.n

GenerateLengthWitness ==
  /\ gen.status = "done"
  /\ gen.n >= 2
  /\ Len(gen.prompt) = 2
  /\ TimeOf(gen.prompt) >= 1
  /\ TimeOf(gen.idx) = TimeOf(gen.prompt) + gen.n
  /\ TimeOf(gen.idx) > config.block_size

\* C2: the logits forward returns at position i are those it returns at
\* position i for every other input of the same length that agrees on the
\* positions up to i, whatever the later positions hold.
ForwardIsCausal ==
  fwd.status = "ok" =>
    \A b \in 1..fwd.call.B :
      \A alt \in Rows(config, fwd.call.T) :
        \A i \in 1..fwd.call.T :
          (\A k \in 1..i : alt[k] = fwd.call.idx[b][k])
            => Logits(model, <<alt>>)[1][i] = fwd.logits[b][i]

ForwardIsCausalWitness ==
  /\ fwd.status = "ok"
  /\ model.blocks >= 2
  /\ fwd.call.T >= 2
  /\ Cardinality(fwd.logits[1][fwd.call.T]) = fwd.call.T
  /\ Cardinality(fwd.logits[1][1]) = 1

\* C3: the distribution a step of generate draws from is the one every
\* sequence with the same most recent min(length, block_size) tokens gets,
\* whatever earlier history precedes them.
GenerationWindow ==
  (gen.status # "none" /\ gen.i >= 1) =>
    \A b \in 1..Len(gen.idx) :
      LET w == Window(Front(gen.idx[b]), config.block_size) IN
      \A T \in 0..MaxHistory :
        \A history \in Rows(config, T) :
          LET other == history \o w IN
          Window(other, config.block_size) = w
            => NextTokenProbs(model, config, <<other>>)[1] = gen.probs[b]

GenerationWindowWitness ==
  /\ gen.status = "done"
  /\ gen.i >= 2
  /\ TimeOf(gen.idx) - 1 > config.block_size
  /\ model.blocks >= 1
  /\ config.block_size >= 2

\* C4 as stated: every successfully constructed model with a Block has
\* head_size * n_head = n_embd (a configuration without it is refused).
ConstructionRefusesNonDivisible ==
  (model.status = "ok" /\ model.blocks >= 1)
    => model.head_size * config.n_head = config.n_embd

\* C4 as amended: construction raises only for n_head = 0 with at least one
\* Block; otherwise it succeeds with head_size the floor of n_embd / n_head,
\* and a model with head_size * n_head # n_embd fails in forward, at the
\* projection: every forward through a Block that returns has
\* head_size * n_head = n_embd.
NonDivisibleFailsInForward ==
  /\ model.status = "raised" <=>
       (model.status # "none" /\ config.n_layer >= 1 /\ config.n_head = 0)
  /\ (model.status = "ok" /\ model.blocks >= 1) =>
       /\ model.head_size * config.n_head <= config.n_embd
       /\ config.n_embd < (model.head_size + 1) * config.n_head
  /\ (fwd.status = "ok" /\ model.blocks >= 1) =>
       model.head_size * config.n_head = config.n_embd
  /\ (fwd.status = "raised" /\ fwd.err = "RuntimeError: proj shape") =>
       model.head_size * config.n_head # config.n_embd
  /\ (gen.status # "none" /\ gen.i >= 1 /\ model.blocks >= 1) =>
       model.head_size * config.n_head = config.n_embd

NonDivisibleWitness ==
  /\ model.status = "ok"
  /\ config.n_embd = 3
  /\ config.n_head = 2
  /\ model.head_size = 1
  /\ fwd.status = "raised"
  /\ fwd.err = "RuntimeError: proj shape"
  /\ fwd.call.T <= config.block_size

\* C5: forward on an input longer than block_size raises: it returns no
\* logits for it.
ForwardRefusesLongInput ==
  (fwd.status # "none" /\ fwd.call.T > config.block_size)
    => fwd.status = "raised"

ForwardRefusesLongInputWitness ==
  /\ fwd.status = "raised"
  /\ fwd.call.T > config.block_size
  /\ fwd.err = "IndexError: position"
  /\ config.block_size = 1

\* C6 as stated: with the model and the input on one device, whichever it
\* is, the tensors forward creates for a sequence of 1 to block_size tokens
\* are on that device and forward raises no device error.
DeviceIndependence ==
  (fwd.status # "none" /\ fwd.call.T >= 1 /\ fwd.call.T <= config.block_size) =>
    /\ fwd.call.arange = model.device
    /\ fwd.status = "raised" => fwd.err # "RuntimeError: device"

\* C7: forward returns a loss exactly when targets are given: None without
\* targets, and with targets a scalar over the B*T rows of the flattened
\* logits; a call without targets raises nothing about targets.
LossIffTargets ==
  /\ fwd.status = "ok" =>
       /\ fwd.loss.kind = "scalar" <=> fwd.call.hasTargets
       /\ fwd.loss.kind = "None" <=> ~fwd.call.hasTargets
       /\ fwd.call.hasTargets =>
            /\ fwd.loss.rows = fwd.call.B * fwd.call.T
            /\ fwd.call.targetsNumel = fwd.call.B * fwd.call.T
  /\ (fwd.status = "raised" /\ ~fwd.call.hasTargets)
       => fwd.err # "RuntimeError: view"

LossWitness ==
  /\ fwd.status = "ok"
  /\ fwd.call.hasTargets
  /\ fwd.call.B = 2
  /\ fwd.call.T = 2
  /\ fwd.loss = [kind |-> "scalar", rows |-> 4]

\* C8 as stated: the logits forward returns for a sequence of 1 to
\* block_size tokens have shape (batch, time, vocab_size).
LogitsShapeIsBTV ==
  (fwd.status = "ok" /\ fwd.call.T >= 1 /\ fwd.call.T <= config.block_size)
    => fwd.shape = <<fwd.call.B, fwd.call.T, config.vocab_size>>

\* C8 as amended: the logits forward returns have shape
\* (batch, time, vocab_size) without targets and
\* (batch * time, vocab_size) with targets; a call with
\* time <= block_size and with no targets or targets of batch * time
\* elements that does not return raises the device error (C6) or the
\* projection's shape error (C4).
LogitsShapeByTargets ==
  /\ fwd.status = "ok" =>
       /\ fwd.call.T <= config.block_size
       /\ ~fwd.call.hasTargets =>
            fwd.shape = <<fwd.call.B, fwd.call.T, config.vocab_size>>
       /\ fwd.call.hasTargets =>
            fwd.shape = <<fwd.call.B * fwd.call.T, config.vocab_size>>
  /\ ( /\ fwd.status = "raised"
       /\ fwd.call.T <= config.block_size
       /\ fwd.call.hasTargets => fwd.call.targetsNumel = fwd.call.B * fwd.call.T )
       => fwd.err \in {"RuntimeError: device", "RuntimeError: proj shape"}

LogitsShapeWitness ==
  /\ fwd.status = "ok"
  /\ fwd.call.hasTargets
  /\ fwd.call.B = 2
  /\ fwd.call.T = 2
  /\ fwd.shape = <<4, config.vocab_size>>

\* C9: every call of forward in generate is on the last
\* min(current length, block_size) tokens, never more than block_size, and
\* generate never raises forward's errors of an input that is too long.
GenerateCallsWithinBlock ==
  gen.status # "none" =>
    /\ gen.called.T = Min(gen.called.len, config.block_size)
    /\ gen.called.T <= config.block_size
    /\ gen.err \notin {"IndexError: position", "RuntimeError: mask shape"}

GenerateCallsWitness ==
  /\ gen.status = "done"
  /\ gen.i >= 2
  /\ TimeOf(gen.prompt) > config.block_size
  /\ gen.called.len = TimeOf(gen.idx) - 1
  /\ gen.called.T = config.block_size
  /\ model.blocks >= 1

\* C10: for every T from 1 to block_size the mask cut to T x T masks, in row
\* i, exactly the entries j > i: the diagonal is never masked and every row
\* of scores keeps a finite entry.
CausalMaskKeepsDiagonal ==
  /\ (model.status = "ok" /\ model.blocks >= 1) =>
       \A T \in 1..config.block_size :
         /\ Len(TrilSlice(model.tril, T)) = T
         /\ \A i \in 1..T : \A j \in 1..T :
              Masked(model.tril, T, i, j) <=> j > i
         /\ RowsFinite(model.tril, T)
  /\ fwd.status = "ok" => fwd.finite

CausalMaskWitness ==
  /\ fwd.status = "ok"
  /\ model.blocks >= 1
  /\ fwd.call.T >= 1
  /\ fwd.call.T < config.block_size
  /\ fwd.finite
====
